---- MODULE Spec2Model ----
(***************************************************************************)
(* Model of the resource backend's POST /start-container pipeline          *)
(* (src/main.go, StartContainerHandler and the helpers it calls).          *)
(*                                                                         *)
(* Every request is served on its own goroutine; the goroutines share the  *)
(* working directory (Dockerfile, docker-compose.yml) and the process's    *)
(* standard streams.  A handler is cut into steps at its external calls    *)
(* (OS metrics queries, file writes, subprocess launch and exit), which is *)
(* where goroutines interleave.                                            *)
(*                                                                         *)
(* Go's int is modelled as a 64-bit two's complement word, uint64 as a     *)
(* 64-bit unsigned word.  A word is a tuple of four 16-bit limbs, least    *)
(* significant first, because 64-bit values exceed TLC's 32-bit integers.  *)
(* Strings are sequences of one-character tokens; fixed texts (template    *)
(* chunks, error messages) are single tokens.                              *)
(***************************************************************************)
EXTENDS Integers, Sequences, FiniteSets, TLC

(***************************************************************************)
(* Machine words                                                           *)
(***************************************************************************)
LimbBase == 2^16
WordLimbs == 64 \div 16

\* x*k + c on a little-endian limb sequence; the result has one more limb
\* than x (the carry out), so nothing is lost.
RECURSIVE MulAdd(_, _, _)
MulAdd(x, k, c) ==
    IF x = <<>> THEN <<c>>
    ELSE LET t == Head(x) * k + c
         IN  <<t % LimbBase>> \o MulAdd(Tail(x), k, t \div LimbBase)

\* Truncation to the machine word: what a Go int or uint64 keeps.
Wrap(x) == SubSeq(x, 1, WordLimbs)

ZeroWord == [i \in 1..WordLimbs |-> 0]

\* Zero extension of a limb sequence to n limbs.
Extend(x, n) == [i \in 1..n |-> IF i <= Len(x) THEN x[i] ELSE 0]

\* Unsigned comparison a > b of limb sequences of equal length.
RECURSIVE UGt(_, _)
UGt(a, b) ==
    IF a = <<>> THEN FALSE
    ELSE LET n == Len(a)
         IN  IF a[n] # b[n] THEN a[n] > b[n]
             ELSE UGt(SubSeq(a, 1, n - 1), SubSeq(b, 1, n - 1))

\* Sign bit of a 64-bit two's complement word.
IsNeg(w) == w[WordLimbs] >= LimbBase \div 2

\* Go's signed a > b on int.
SGt(a, b) ==
    IF IsNeg(a) # IsNeg(b) THEN IsNeg(b) ELSE UGt(a, b)

\* Two's complement negation.
Negate(w) == Wrap(MulAdd([i \in 1..WordLimbs |-> LimbBase - 1 - w[i]], 1, 1))

\* Go's int multiplication by a constant: wraps modulo 2^64.
MulInt(w, k) == Wrap(MulAdd(w, k, 0))

\* The word of a small non-negative number.
WordOf(n) == Wrap(MulAdd(ZeroWord, 1, n))

(***************************************************************************)
(* strconv.Atoi                                                            *)
(***************************************************************************)
Digits == {"0", "1", "2", "3", "4", "5", "6", "7", "8", "9"}

DigitVal(c) ==
    CASE c = "0" -> 0 [] c = "1" -> 1 [] c = "2" -> 2 [] c = "3" -> 3
      [] c = "4" -> 4 [] c = "5" -> 5 [] c = "6" -> 6 [] c = "7" -> 7
      [] c = "8" -> 8 [] c = "9" -> 9

\* The magnitude of a digit string; ovf when it does not fit 64 bits.
RECURSIVE Magnitude(_, _)
Magnitude(s, acc) ==
    IF s = <<>> THEN [ovf |-> FALSE, w |-> acc]
    ELSE LET Step(t) == IF t[WordLimbs + 1] # 0 THEN [ovf |-> TRUE, w |-> ZeroWord]
                        ELSE Magnitude(Tail(s), Wrap(t))
         IN  \* t is bound to a value, so each digit is worked once
             CHOOSE m \in {Step(t) : t \in {MulAdd(acc, 10, DigitVal(Head(s)))}} : TRUE

MinIntMagnitude == [i \in 1..WordLimbs |-> IF i = WordLimbs THEN LimbBase \div 2 ELSE 0]

\* strconv.Atoi(s): an optional sign, then one or more decimal digits, the
\* value within the range of int; anything else is an error.
Atoi(s) ==
    LET signed == s # <<>> /\ Head(s) \in {"+", "-"}
        neg    == s # <<>> /\ Head(s) = "-"
        body   == IF signed THEN Tail(s) ELSE s
        m      == Magnitude(body, ZeroWord)
    IN  IF body = <<>> \/ \E i \in 1..Len(body) : body[i] \notin Digits
          THEN [ok |-> FALSE, val |-> ZeroWord]
        ELSE IF m.ovf THEN [ok |-> FALSE, val |-> ZeroWord]
        ELSE IF neg THEN
          IF IsNeg(m.w) /\ m.w # MinIntMagnitude
            THEN [ok |-> FALSE, val |-> ZeroWord]
            ELSE [ok |-> TRUE, val |-> Negate(m.w)]
        ELSE IF IsNeg(m.w) THEN [ok |-> FALSE, val |-> ZeroWord]
        ELSE [ok |-> TRUE, val |-> m.w]

\* The word of a decimal number written in groups of three digits.
RECURSIVE Thousands(_, _)
Thousands(groups, acc) ==
    IF groups = <<>> THEN acc
    ELSE Thousands(Tail(groups), Wrap(MulAdd(acc, 1000, Head(groups))))

(***************************************************************************)
(* Requests                                                                *)
(***************************************************************************)
NumReqs == 2
Reqs == 1..NumReqs

\* A JSON value of the request body: a string, a number, or no such key.
JStr(s) == [t |-> "string", s |-> s]
JNum == [t |-> "number", s |-> <<>>]
JAbsent == [t |-> "absent", s |-> <<>>]

Obj(c, m, s, p) == [kind |-> "object", cpus |-> c, memory |-> m, storage |-> s, port |-> p]
Malformed == [kind |-> "malformed", cpus |-> JAbsent, memory |-> JAbsent,
              storage |-> JAbsent, port |-> JAbsent]

Port2222 == JStr(<<"2", "2", "2", "2">>)
Port2223 == JStr(<<"2", "2", "2", "3">>)
Str512 == <<"5", "1", "2">>
Str1024 == <<"1", "0", "2", "4">>
\* 2^44 megabytes: 2^44 * 2^20 = 2^64
Str2p44 == <<"1", "7", "5", "9", "2", "1", "8", "6", "0", "4", "4", "4", "1", "6">>

\* The request bodies the clients send.
Bodies ==
    { Obj(JStr(<<"2">>), JStr(Str512), JStr(Str1024), Port2222),
      Obj(JStr(<<"3">>), JStr(<<"2", "5", "6">>), JStr(<<"2", "0", "4", "8">>), Port2223),
      Obj(JStr(<<"8">>), JStr(<<"1", "0", "0">>), JStr(<<"1", "0", "0">>), Port2222),
      Obj(JStr(<<"a", "b", "c">>), JStr(Str512), JStr(Str1024), Port2222),
      Obj(JStr(<<"2">>), JAbsent, JStr(Str1024), Port2222),
      Obj(JStr(<<"2">>), JStr(Str512), JStr(<<"1", "e", "3">>), Port2222),
      Obj(JStr(<<"-", "1">>), JStr(Str512), JStr(Str1024), Port2223),
      Obj(JStr(<<"2">>), JStr(<<"-", "1">>), JStr(Str1024), Port2222),
      Obj(JStr(<<"2">>), JStr(Str2p44), JStr(Str1024), Port2222),
      Obj(JNum, JStr(Str512), JStr(Str1024), Port2222),
      Malformed }

\* The zero value of StartContainerRequest.
ZeroRequest == [CPUs |-> <<>>, Memory |-> <<>>, Storage |-> <<>>, Port |-> <<>>]

\* json.NewDecoder(r.Body).Decode(&req): a syntax error or a non-string
\* value for a string field is an error; a missing key leaves "".
JsonDecode(b) ==
    IF b.kind = "malformed"
      THEN [err |-> TRUE, msg |-> <<"invalid character">>, req |-> ZeroRequest]
    ELSE IF \E v \in {b.cpus, b.memory, b.storage, b.port} : v.t = "number"
      THEN [err |-> TRUE,
            msg |-> <<"json: cannot unmarshal number into Go struct field of type string">>,
            req |-> ZeroRequest]
    ELSE [err |-> FALSE, msg |-> <<>>,
          req |-> [CPUs |-> b.cpus.s, Memory |-> b.memory.s,
                   Storage |-> b.storage.s, Port |-> b.port.s]]

(***************************************************************************)
(* Host readings and external outcomes                                     *)
(***************************************************************************)
\* What the metrics provider may report.
CpuReadings == {WordOf(4)}
MemReadings == {Thousands(<<8, 0, 0, 0>>, ZeroWord)}
DiskReadings == {Thousands(<<100, 0, 0, 0>>, ZeroWord)}

MetricsErr == <<"metrics: not available">>
OpenErr == <<"open: permission denied">>
WriteErr == <<"write: no space left on device">>
StartErr == <<"exec: executable file not found in $PATH">>

\* (*exec.ExitError).Error()
ExitError(code) == IF code = 1 THEN <<"exit status 1">> ELSE <<"exit status 2">>

\* What docker build prints, by exit code.
BuildText(code) ==
    IF code = 0 THEN <<"Successfully tagged debian-ssh:latest">>
    ELSE <<"E: Unable to locate package openssh-server">>

ExitCodes == {0, 1}
UpTexts == { <<"Creating debian-ssh ... done">>,
             <<"ERROR: port is already allocated">> }

(***************************************************************************)
(* Artifacts                                                               *)
(***************************************************************************)
NoFile == <<"(no file)">>
\* ioutil.WriteFile is not atomic: it opens the file with O_TRUNC, which
\* empties it, and then writes the data at offset 0 of its own descriptor.
Truncated == <<>>

\* A write of data at offset 0: the data, then whatever the file held
\* beyond the data's length (another writer's longer text).  Lengths are
\* counted in tokens; all renderings share the template's chunks, so which
\* of two is longer is the same in tokens as in bytes.
WriteAtStart(old, data) == data \o SubSeq(old, Len(data) + 1, Len(old))

dockerfileContent == <<"FROM debian:latest ... CMD [\"/usr/sbin/sshd\", \"-D\"]">>

\* composeTemplate with the memory and storage placeholders exchanged.
composeTemplate_Swapped(data) ==
    <<"version: '3.7' services: debian-ssh: image: debian-ssh deploy: resources: limits: ",
      "cpus: \"">> \o data.CPUS \o <<"\"", " memory: \"">> \o data.STORAGE \o <<"M\"",
      " ports: - \"">> \o data.PORT \o <<":22\"", " storage_opt: size: \"">>
      \o data.MEMORY \o <<"M\"">>

\* tmpl.Execute(&composeFile, data): text/template copies the values in
\* verbatim between the fixed chunks of composeTemplate.
composeTemplate(data) ==
    <<"version: '3.7' services: debian-ssh: image: debian-ssh deploy: resources: limits: ",
      "cpus: \"">> \o data.CPUS \o <<"\"", " memory: \"">> \o data.MEMORY \o <<"M\"",
      " ports: - \"">> \o data.PORT \o <<":22\"", " storage_opt: size: \"">>
      \o data.STORAGE \o <<"M\"">>

\* The map built at main.go:169-174.
TemplateData(q) ==
    [CPUS |-> q.CPUs, MEMORY |-> q.Memory, STORAGE |-> q.Storage, PORT |-> q.Port]

(***************************************************************************)
(* State                                                                   *)
(***************************************************************************)
VARIABLES
    pc,              \* where each request's handler stands
    req,             \* the decoded StartContainerRequest
    cpuCount,        \* cpu.Counts(true)
    virtMem,         \* mem.VirtualMemory().Available
    diskUsage,       \* disk.Usage("/").Free
    requiredCPUs, requiredMemory, requiredStorage,
    output,          \* runDockerCompose's captured output
    resp,            \* what each handler wrote to its ResponseWriter
    Dockerfile,      \* content of ./Dockerfile
    composeFile,     \* content of ./docker-compose.yml
    stdStreams,      \* what was written to os.Stdout / os.Stderr
    log              \* history: the external calls and decisions of each request

vars == <<pc, req, cpuCount, virtMem, diskUsage, requiredCPUs, requiredMemory,
          requiredStorage, output, resp, Dockerfile, composeFile, stdStreams, log>>

metrics == <<cpuCount, virtMem, diskUsage>>
parsed == <<requiredCPUs, requiredMemory, requiredStorage>>
files == <<Dockerfile, composeFile>>

Init ==
    /\ pc = [r \in Reqs |-> "idle"]
    /\ req = [r \in Reqs |-> ZeroRequest]
    /\ cpuCount = [r \in Reqs |-> ZeroWord]
    /\ virtMem = [r \in Reqs |-> ZeroWord]
    /\ diskUsage = [r \in Reqs |-> ZeroWord]
    /\ requiredCPUs = [r \in Reqs |-> ZeroWord]
    /\ requiredMemory = [r \in Reqs |-> ZeroWord]
    /\ requiredStorage = [r \in Reqs |-> ZeroWord]
    /\ output = [r \in Reqs |-> <<>>]
    /\ resp = [r \in Reqs |-> <<>>]
    /\ Dockerfile = NoFile
    /\ composeFile = NoFile
    /\ stdStreams = <<>>
    /\ log = [r \in Reqs |-> <<>>]

\* http.Error(w, msg, code)
Error(r, msg, code) ==
    resp' = [resp EXCEPT ![r] = Append(@, [status |-> code, body |-> msg])]

Goto(r, l) == pc' = [pc EXCEPT ![r] = l]
Event(r, op, ok, info) ==
    log' = [log EXCEPT ![r] = Append(@, [op |-> op, ok |-> ok, info |-> info])]

(***************************************************************************)
(* StartContainerHandler, step by step                                     *)
(***************************************************************************)
\* main.go:109-113: decode the body; a decode error answers 400.
Decode(r) ==
    /\ pc[r] = "idle"
    /\ \E b \in Bodies :
         LET d == JsonDecode(b)
         IN  /\ req' = [req EXCEPT ![r] = d.req]
             /\ Event(r, "decode", ~d.err, b)
             /\ IF d.err
                  THEN Error(r, d.msg, 400) /\ Goto(r, "done")
                  ELSE Goto(r, "cpu") /\ UNCHANGED resp
    /\ UNCHANGED <<metrics, parsed, output, files, stdStreams>>

\* CpuCounts with one retry after a failed query.
CpuCounts_Retry(r) ==
    /\ pc[r] = "cpu"
    /\ \/ \E n \in CpuReadings :
            /\ cpuCount' = [cpuCount EXCEPT ![r] = n]
            /\ Event(r, "cpu", TRUE, n)
            /\ Goto(r, "mem")
            /\ UNCHANGED resp
       \/ /\ Event(r, "cpu", FALSE, MetricsErr)
          /\ IF \E i \in DOMAIN log[r] : log[r][i].op = "cpu"
               THEN Error(r, MetricsErr, 500) /\ Goto(r, "done")
               ELSE UNCHANGED <<resp, pc>>
          /\ UNCHANGED cpuCount
    /\ UNCHANGED <<req, virtMem, diskUsage, parsed, output, files, stdStreams>>

\* main.go:115-119
CpuCounts(r) ==
    /\ pc[r] = "cpu"
    /\ \/ \E n \in CpuReadings :
            /\ cpuCount' = [cpuCount EXCEPT ![r] = n]
            /\ Event(r, "cpu", TRUE, n)
            /\ Goto(r, "mem")
            /\ UNCHANGED resp
       \/ /\ Event(r, "cpu", FALSE, MetricsErr)
          /\ Error(r, MetricsErr, 500)
          /\ Goto(r, "done")
          /\ UNCHANGED cpuCount
    /\ UNCHANGED <<req, virtMem, diskUsage, parsed, output, files, stdStreams>>

\* VirtualMemory with the error of the query dropped.
VirtualMemory_IgnoreErr(r) ==
    /\ pc[r] = "mem"
    /\ \/ \E n \in MemReadings :
            /\ virtMem' = [virtMem EXCEPT ![r] = n]
            /\ Event(r, "mem", TRUE, n)
       \/ /\ Event(r, "mem", FALSE, MetricsErr)
          /\ UNCHANGED virtMem
    /\ Goto(r, "disk")
    /\ UNCHANGED <<req, cpuCount, diskUsage, parsed, output, resp, files, stdStreams>>

\* main.go:121-125
VirtualMemory(r) ==
    /\ pc[r] = "mem"
    /\ \/ \E n \in MemReadings :
            /\ virtMem' = [virtMem EXCEPT ![r] = n]
            /\ Event(r, "mem", TRUE, n)
            /\ Goto(r, "disk")
            /\ UNCHANGED resp
       \/ /\ Event(r, "mem", FALSE, MetricsErr)
          /\ Error(r, MetricsErr, 500)
          /\ Goto(r, "done")
          /\ UNCHANGED virtMem
    /\ UNCHANGED <<req, cpuCount, diskUsage, parsed, output, files, stdStreams>>

\* DiskUsage with the return after http.Error missing.
DiskUsage_NoReturn(r) ==
    /\ pc[r] = "disk"
    /\ \/ \E n \in DiskReadings :
            /\ diskUsage' = [diskUsage EXCEPT ![r] = n]
            /\ Event(r, "disk", TRUE, n)
            /\ UNCHANGED resp
       \/ /\ Event(r, "disk", FALSE, MetricsErr)
          /\ Error(r, MetricsErr, 500)
          /\ UNCHANGED diskUsage
    /\ Goto(r, "atoi")
    /\ UNCHANGED <<req, cpuCount, virtMem, parsed, output, files, stdStreams>>

\* main.go:127-131
DiskUsage(r) ==
    /\ pc[r] = "disk"
    /\ \/ \E n \in DiskReadings :
            /\ diskUsage' = [diskUsage EXCEPT ![r] = n]
            /\ Event(r, "disk", TRUE, n)
            /\ Goto(r, "atoi")
            /\ UNCHANGED resp
       \/ /\ Event(r, "disk", FALSE, MetricsErr)
          /\ Error(r, MetricsErr, 500)
          /\ Goto(r, "done")
          /\ UNCHANGED diskUsage
    /\ UNCHANGED <<req, cpuCount, virtMem, parsed, output, files, stdStreams>>

\* main.go:133-149: the three strconv.Atoi calls, in order; the first that
\* fails answers 400.
ParseFields(r) ==
    /\ pc[r] = "atoi"
    /\ LET c == Atoi(req[r].CPUs)
           m == Atoi(req[r].Memory)
           s == Atoi(req[r].Storage)
       IN  IF ~c.ok THEN
             /\ Error(r, <<"Invalid CPU value">>, 400)
             /\ Goto(r, "done")
             /\ UNCHANGED parsed
           ELSE IF ~m.ok THEN
             /\ Error(r, <<"Invalid Memory value">>, 400)
             /\ Goto(r, "done")
             /\ requiredCPUs' = [requiredCPUs EXCEPT ![r] = c.val]
             /\ UNCHANGED <<requiredMemory, requiredStorage>>
           ELSE IF ~s.ok THEN
             /\ Error(r, <<"Invalid Storage value">>, 400)
             /\ Goto(r, "done")
             /\ requiredCPUs' = [requiredCPUs EXCEPT ![r] = c.val]
             /\ requiredMemory' = [requiredMemory EXCEPT ![r] = m.val]
             /\ UNCHANGED requiredStorage
           ELSE
             /\ requiredCPUs' = [requiredCPUs EXCEPT ![r] = c.val]
             /\ requiredMemory' = [requiredMemory EXCEPT ![r] = m.val]
             /\ requiredStorage' = [requiredStorage EXCEPT ![r] = s.val]
             /\ Goto(r, "admit")
             /\ UNCHANGED resp
    /\ UNCHANGED <<req, metrics, output, files, stdStreams, log>>

\* main.go:151: the condition of the admission test.  The products are
\* computed in int (wrapping), then reinterpreted as uint64.
Insufficient(rc, rm, rs, cc, ma, df) ==
    \/ SGt(rc, cc)
    \/ UGt(MulInt(MulInt(rm, 1024), 1024), ma)
    \/ UGt(MulInt(MulInt(rs, 1024), 1024), df)

\* CheckAdmission with the return after http.Error missing.
CheckAdmission_NoReturn(r) ==
    /\ pc[r] = "admit"
    /\ LET reject == Insufficient(requiredCPUs[r], requiredMemory[r], requiredStorage[r],
                                  cpuCount[r], virtMem[r], diskUsage[r])
       IN  /\ Event(r, "admit", ~reject, <<>>)
           /\ IF reject
                THEN Error(r, <<"Insufficient resources">>, 403)
                ELSE UNCHANGED resp
           /\ Goto(r, "dockerfile")
    /\ UNCHANGED <<req, metrics, parsed, output, files, stdStreams>>

\* The sum of two words, modulo 2^64.
RECURSIVE AddLimbs(_, _, _)
AddLimbs(x, y, c) ==
    IF x = <<>> THEN <<c>>
    ELSE LET t == Head(x) + Head(y) + c
         IN  <<t % LimbBase>> \o AddLimbs(Tail(x), Tail(y), t \div LimbBase)

AddWord(x, y) == Wrap(AddLimbs(x, y, 0))

\* The sum of val[o] over the requests o of S.
RECURSIVE SumOver(_, _)
SumOver(S, val) ==
    IF S = {} THEN ZeroWord
    ELSE LET o == CHOOSE o \in S : TRUE
         IN  AddWord(val[o], SumOver(S \ {o}, val))

\* CheckAdmission against a ledger: the amounts of the requests admitted
\* before and not yet answered are added to the request's own.
CheckAdmission_Ledger(r) ==
    /\ pc[r] = "admit"
    /\ LET granted == {o \in Reqs \ {r} :
                         /\ pc[o] # "done"
                         /\ \E i \in DOMAIN log[o] : log[o][i].op = "admit" /\ log[o][i].ok}
           reject == Insufficient(AddWord(requiredCPUs[r], SumOver(granted, requiredCPUs)),
                                  AddWord(requiredMemory[r], SumOver(granted, requiredMemory)),
                                  AddWord(requiredStorage[r], SumOver(granted, requiredStorage)),
                                  cpuCount[r], virtMem[r], diskUsage[r])
       IN  /\ Event(r, "admit", ~reject, <<>>)
           /\ IF reject
                THEN Error(r, <<"Insufficient resources">>, 403) /\ Goto(r, "done")
                ELSE Goto(r, "dockerfile") /\ UNCHANGED resp
    /\ UNCHANGED <<req, metrics, parsed, output, files, stdStreams>>

\* main.go:151-154
CheckAdmission(r) ==
    /\ pc[r] = "admit"
    /\ LET reject == Insufficient(requiredCPUs[r], requiredMemory[r], requiredStorage[r],
                                  cpuCount[r], virtMem[r], diskUsage[r])
       IN  /\ Event(r, "admit", ~reject, <<>>)
           /\ IF reject
                THEN Error(r, <<"Insufficient resources">>, 403) /\ Goto(r, "done")
                ELSE Goto(r, "dockerfile") /\ UNCHANGED resp
    /\ UNCHANGED <<req, metrics, parsed, output, files, stdStreams>>

\* main.go:55 and 157-160: ioutil.WriteFile("Dockerfile", ...) first opens
\* the file with O_CREATE|O_TRUNC, which empties it; a failed open leaves
\* it as it was.
createDockerfileOpen(r) ==
    /\ pc[r] = "dockerfile"
    /\ \/ /\ Dockerfile' = Truncated
          /\ Event(r, "openDockerfile", TRUE, <<>>)
          /\ Goto(r, "dockerfileWrite")
          /\ UNCHANGED resp
       \/ /\ UNCHANGED Dockerfile
          /\ Event(r, "openDockerfile", FALSE, OpenErr)
          /\ Error(r, OpenErr, 500)
          /\ Goto(r, "done")
    /\ UNCHANGED <<req, metrics, parsed, output, composeFile, stdStreams>>

\* createDockerfileWrite with the return after http.Error missing.
createDockerfileWrite_NoReturn(r) ==
    /\ pc[r] = "dockerfileWrite"
    /\ \/ /\ Dockerfile' = WriteAtStart(Dockerfile, dockerfileContent)
          /\ Event(r, "writeDockerfile", TRUE, dockerfileContent)
          /\ UNCHANGED resp
       \/ /\ UNCHANGED Dockerfile
          /\ Event(r, "writeDockerfile", FALSE, WriteErr)
          /\ Error(r, WriteErr, 500)
    /\ Goto(r, "build")
    /\ UNCHANGED <<req, metrics, parsed, output, composeFile, stdStreams>>

\* main.go:35-55 and 157-160: ioutil.WriteFile then writes the fixed text at
\* the start of the file; a failed write leaves the file as it stands.
createDockerfileWrite(r) ==
    /\ pc[r] = "dockerfileWrite"
    /\ \/ /\ Dockerfile' = WriteAtStart(Dockerfile, dockerfileContent)
          /\ Event(r, "writeDockerfile", TRUE, dockerfileContent)
          /\ Goto(r, "build")
          /\ UNCHANGED resp
       \/ /\ UNCHANGED Dockerfile
          /\ Event(r, "writeDockerfile", FALSE, WriteErr)
          /\ Error(r, WriteErr, 500)
          /\ Goto(r, "done")
    /\ UNCHANGED <<req, metrics, parsed, output, composeFile, stdStreams>>

\* main.go:34-56
createDockerfile(r) == createDockerfileOpen(r) \/ createDockerfileWrite(r)

\* main.go:59-63 and 163: cmd.Run() launches docker build, which reads the
\* working directory; a launch failure is an error at once.
buildDockerImageStart(r) ==
    /\ pc[r] = "build"
    /\ \/ /\ Event(r, "build", TRUE, Dockerfile)
          /\ Goto(r, "building")
          /\ UNCHANGED resp
       \/ /\ Event(r, "build", FALSE, StartErr)
          /\ Error(r, StartErr, 500)
          /\ Goto(r, "done")
    /\ UNCHANGED <<req, metrics, parsed, output, files, stdStreams>>

\* buildDockerImageExit with the return after http.Error missing.
buildDockerImageExit_NoReturn(r) ==
    /\ pc[r] = "building"
    /\ \E code \in ExitCodes :
         /\ stdStreams' = Append(stdStreams, BuildText(code))
         /\ Event(r, "buildExit", code = 0, [code |-> code, text |-> BuildText(code)])
         /\ IF code # 0 THEN Error(r, ExitError(code), 500) ELSE UNCHANGED resp
         /\ Goto(r, "compose")
    /\ UNCHANGED <<req, metrics, parsed, output, files>>

\* buildDockerImageExit answering with what the build printed, as if the
\* build's output were captured like runDockerCompose's.
buildDockerImageExit_Captured(r) ==
    /\ pc[r] = "building"
    /\ \E code \in ExitCodes :
         /\ Event(r, "buildExit", code = 0, [code |-> code, text |-> BuildText(code)])
         /\ IF code # 0
              THEN Error(r, BuildText(code), 500) /\ Goto(r, "done")
              ELSE Goto(r, "compose") /\ UNCHANGED resp
    /\ UNCHANGED <<req, metrics, parsed, output, files, stdStreams>>

\* buildDockerImageExit with a deadline: the handler may give up on a
\* build that has not exited.
buildDockerImageExit_Timeout(r) ==
    /\ pc[r] = "building"
    /\ \/ \E code \in ExitCodes :
            /\ stdStreams' = Append(stdStreams, BuildText(code))
            /\ Event(r, "buildExit", code = 0, [code |-> code, text |-> BuildText(code)])
            /\ IF code # 0
                 THEN Error(r, ExitError(code), 500) /\ Goto(r, "done")
                 ELSE Goto(r, "compose") /\ UNCHANGED resp
       \/ /\ Error(r, <<"context deadline exceeded">>, 500)
          /\ Goto(r, "done")
          /\ UNCHANGED <<stdStreams, log>>
    /\ UNCHANGED <<req, metrics, parsed, output, files>>

\* main.go:61-63 and 163-166: docker build exits; its output went to
\* os.Stdout / os.Stderr; a non-zero exit is an error whose text is
\* err.Error().
buildDockerImageExit(r) ==
    /\ pc[r] = "building"
    /\ \E code \in ExitCodes :
         /\ stdStreams' = Append(stdStreams, BuildText(code))
         /\ Event(r, "buildExit", code = 0, [code |-> code, text |-> BuildText(code)])
         /\ IF code # 0
              THEN Error(r, ExitError(code), 500) /\ Goto(r, "done")
              ELSE Goto(r, "compose") /\ UNCHANGED resp
    /\ UNCHANGED <<req, metrics, parsed, output, files>>

\* createDockerComposeFileOpen behind a provisioning lock: it waits while
\* another request is between its compose write and the exit of its up.
createDockerComposeFileOpen_Locked(r) ==
    /\ pc[r] = "compose"
    /\ \A o \in Reqs \ {r} : pc[o] \notin {"composeWrite", "up", "running"}
    /\ \/ /\ composeFile' = Truncated
          /\ Event(r, "openCompose", TRUE, <<>>)
          /\ Goto(r, "composeWrite")
          /\ UNCHANGED resp
       \/ /\ UNCHANGED composeFile
          /\ Event(r, "openCompose", FALSE, OpenErr)
          /\ Error(r, OpenErr, 500)
          /\ Goto(r, "done")
    /\ UNCHANGED <<req, metrics, parsed, output, Dockerfile, stdStreams>>

\* main.go:84-94 and 169-179: the template is static, so Parse and Execute
\* succeed; ioutil.WriteFile("docker-compose.yml", ...) first opens the file
\* with O_CREATE|O_TRUNC, which empties it.
createDockerComposeFileOpen(r) ==
    /\ pc[r] = "compose"
    /\ \/ /\ composeFile' = Truncated
          /\ Event(r, "openCompose", TRUE, <<>>)
          /\ Goto(r, "composeWrite")
          /\ UNCHANGED resp
       \/ /\ UNCHANGED composeFile
          /\ Event(r, "openCompose", FALSE, OpenErr)
          /\ Error(r, OpenErr, 500)
          /\ Goto(r, "done")
    /\ UNCHANGED <<req, metrics, parsed, output, Dockerfile, stdStreams>>

\* main.go:67-94 and 169-179: the text rendered from the request's strings
\* is written at the start of docker-compose.yml.
createDockerComposeFileWrite(r) ==
    /\ pc[r] = "composeWrite"
    /\ LET text == composeTemplate(TemplateData(req[r]))
       IN  \/ /\ composeFile' = WriteAtStart(composeFile, text)
              /\ Event(r, "writeCompose", TRUE, text)
              /\ Goto(r, "up")
              /\ UNCHANGED resp
           \/ /\ UNCHANGED composeFile
              /\ Event(r, "writeCompose", FALSE, WriteErr)
              /\ Error(r, WriteErr, 500)
              /\ Goto(r, "done")
    /\ UNCHANGED <<req, metrics, parsed, output, Dockerfile, stdStreams>>

\* main.go:67-95
createDockerComposeFile(r) ==
    createDockerComposeFileOpen(r) \/ createDockerComposeFileWrite(r)

\* main.go:98-103 and 182-186: cmd.Run() launches docker-compose up -d,
\* which reads docker-compose.yml; a launch failure returns the empty
\* buffer and the error.
runDockerComposeStart(r) ==
    /\ pc[r] = "up"
    /\ \/ /\ Event(r, "up", TRUE, composeFile)
          /\ Goto(r, "running")
          /\ UNCHANGED <<resp, output>>
       \/ /\ Event(r, "up", FALSE, StartErr)
          /\ output' = [output EXCEPT ![r] = <<>>]
          /\ Error(r, <<>>, 500)
          /\ Goto(r, "done")
    /\ UNCHANGED <<req, metrics, parsed, files, stdStreams>>

\* main.go:188-197: the success envelope.
Success(r, out) ==
    resp' = [resp EXCEPT ![r] = Append(@,
               [status |-> 200,
                body |-> [docker_compose_output |-> out,
                          ssh_url |-> <<"ssh root@localhost -p ">> \o req[r].Port,
                          password |-> <<"password">>]])]

\* runDockerComposeExit answering a failure with err.Error() instead of
\* the captured output.
runDockerComposeExit_ErrText(r) ==
    /\ pc[r] = "running"
    /\ \E code \in ExitCodes, text \in UpTexts :
         /\ output' = [output EXCEPT ![r] = text]
         /\ Event(r, "upExit", code = 0, [code |-> code, text |-> text])
         /\ IF code # 0 THEN Error(r, ExitError(code), 500) ELSE Success(r, text)
         /\ Goto(r, "done")
    /\ UNCHANGED <<req, metrics, parsed, files, stdStreams>>

\* runDockerComposeExit with the error of the up invocation ignored.
runDockerComposeExit_IgnoreErr(r) ==
    /\ pc[r] = "running"
    /\ \E code \in ExitCodes, text \in UpTexts :
         /\ output' = [output EXCEPT ![r] = text]
         /\ Event(r, "upExit", code = 0, [code |-> code, text |-> text])
         /\ Success(r, text)
         /\ Goto(r, "done")
    /\ UNCHANGED <<req, metrics, parsed, files, stdStreams>>

\* main.go:103-104 and 182-197: docker-compose exits; out.String() is
\* returned whatever the exit status; a non-zero exit answers 500 with that
\* output, a zero exit answers the success envelope.
runDockerComposeExit(r) ==
    /\ pc[r] = "running"
    /\ \E code \in ExitCodes, text \in UpTexts :
         /\ output' = [output EXCEPT ![r] = text]
         /\ Event(r, "upExit", code = 0, [code |-> code, text |-> text])
         /\ IF code # 0 THEN Error(r, text, 500) ELSE Success(r, text)
         /\ Goto(r, "done")
    /\ UNCHANGED <<req, metrics, parsed, files, stdStreams>>

StartContainerHandler(r) ==
    \/ Decode(r)
    \/ CpuCounts(r)
    \/ VirtualMemory(r)
    \/ DiskUsage(r)
    \/ ParseFields(r)
    \/ CheckAdmission(r)
    \/ createDockerfile(r)
    \/ buildDockerImageStart(r)
    \/ buildDockerImageExit(r)
    \/ createDockerComposeFile(r)
    \/ runDockerComposeStart(r)
    \/ runDockerComposeExit(r)

Next == \E r \in Reqs : StartContainerHandler(r)

Spec == Init /\ [][Next]_vars

(***************************************************************************)
(* Reading the history                                                     *)
(***************************************************************************)
MetricOps == {"cpu", "mem", "disk"}
ProvisionOps == {"openDockerfile", "writeDockerfile", "build", "buildExit",
                 "openCompose", "writeCompose", "up", "upExit"}
\* The log entries that open an external call (the write entries, buildExit
\* and upExit close one).
CallOps == {"cpu", "mem", "disk", "openDockerfile", "build", "openCompose", "up"}
\* Every step of an external call.
StepOps == CallOps \cup {"writeDockerfile", "buildExit", "writeCompose", "upExit"}

Has(r, op) == \E i \in DOMAIN log[r] : log[r][i].op = op
Count(r, op) == Cardinality({i \in DOMAIN log[r] : log[r][i].op = op})
Failed(r, op) == \E i \in DOMAIN log[r] : log[r][i].op = op /\ ~log[r][i].ok
Passed(r, op) == \E i \in DOMAIN log[r] : log[r][i].op = op /\ log[r][i].ok

\* The request's own admission test, on the values it holds.
Rejects(r) ==
    Insufficient(requiredCPUs[r], requiredMemory[r], requiredStorage[r],
                 cpuCount[r], virtMem[r], diskUsage[r])

ErrorResponse(code, msg) == <<[status |-> code, body |-> msg]>>

(***************************************************************************)
(* Claims                                                                  *)
(***************************************************************************)

\* C1: a request whose admission test rejects answers 403 "Insufficient
\* resources" and has written no artifact and launched no process; every
\* artifact write or process launch of a request comes after that request's
\* admission test accepted.
C1_RejectionHasNoSideEffect ==
    \A r \in Reqs :
      /\ (Has(r, "admit") /\ Rejects(r)) =>
            /\ resp[r] = ErrorResponse(403, <<"Insufficient resources">>)
            /\ \A op \in ProvisionOps : ~Has(r, op)
      /\ \A i \in DOMAIN log[r] :
            log[r][i].op \in ProvisionOps =>
               /\ ~Rejects(r)
               /\ \E j \in 1..(i - 1) : log[r][j].op = "admit" /\ log[r][j].ok

\* C1 witness: one request was rejected and is done while another request
\* has written both artifacts.
C1_Witness ==
    \E r, o \in Reqs :
      /\ r # o
      /\ pc[r] = "done" /\ Has(r, "admit") /\ Rejects(r)
      /\ Passed(o, "writeDockerfile") /\ Passed(o, "writeCompose")

\* A decoded request with a cpus, memory or storage string that Atoi refuses.
Unparseable(r) ==
    /\ Passed(r, "decode")
    /\ \E f \in {req[r].CPUs, req[r].Memory, req[r].Storage} : ~Atoi(f).ok

\* C2 (as claimed): a request with an unparseable numeric field answers 400
\* whatever the metrics provider returns, and up to its response it has
\* called neither the metrics provider nor any provisioner step.
C2_Claim ==
    \A r \in Reqs :
      Unparseable(r) =>
        /\ \A op \in MetricOps \cup ProvisionOps : ~Has(r, op)
        /\ resp[r] # <<>> => resp[r][1].status = 400

\* A decoded request with a numeric field that parses to a negative int.
NegativeField(r) ==
    /\ Passed(r, "decode")
    /\ \E f \in {req[r].CPUs, req[r].Memory, req[r].Storage} :
          Atoi(f).ok /\ IsNeg(Atoi(f).val)

\* The mathematical product w * 1024 * 1024 of a non-negative word exceeds
\* the unsigned word a (no truncation: six limbs).
ExceedsBytes(w, a) ==
    UGt(MulAdd(MulAdd(w, 1024, 0), 1024, 0), Extend(a, WordLimbs + 2))

\* C3 (as claimed): for non-negative cpus, memory and storage the admission
\* decision is Reject exactly when cpus > availableCPUs or memory*1024*1024 >
\* available bytes or storage*1024*1024 > free bytes.
C3_Claim ==
    \A r \in Reqs :
      ( /\ Has(r, "admit")
        /\ ~IsNeg(requiredCPUs[r]) /\ ~IsNeg(requiredMemory[r])
        /\ ~IsNeg(requiredStorage[r]) ) =>
          ( Failed(r, "admit") <=>
              \/ SGt(requiredCPUs[r], cpuCount[r])
              \/ ExceedsBytes(requiredMemory[r], virtMem[r])
              \/ ExceedsBytes(requiredStorage[r], diskUsage[r]) )

\* C4 (as claimed): a request with a negative cpus, memory or storage value
\* never passes admission, writes an artifact or launches a process, and
\* (its metrics queries having succeeded) answers 400.
C4_Claim ==
    \A r \in Reqs :
      NegativeField(r) =>
        /\ ~Passed(r, "admit")
        /\ \A op \in ProvisionOps : ~Has(r, op)
        /\ (resp[r] # <<>> /\ \A m \in MetricOps : Passed(r, m)) =>
              resp[r][1].status = 400

\* C5: a request whose docker build exited non-zero never launches
\* docker-compose up.
C5_NoUpAfterFailedBuild ==
    \A r \in Reqs : Failed(r, "buildExit") => ~Has(r, "up") /\ ~Has(r, "upExit")

\* C5 witness: a request's build failed and the request is done, while
\* another request's docker-compose up has been launched.
C5_Witness ==
    \E r, o \in Reqs :
      r # o /\ pc[r] = "done" /\ Failed(r, "buildExit") /\ Has(o, "up")

\* C6 (as claimed): a failed build answers 500 with the text docker build
\* printed.
C6_Claim ==
    \A r \in Reqs :
      \A i \in DOMAIN log[r] :
        (log[r][i].op = "buildExit" /\ ~log[r][i].ok) =>
           resp[r] = ErrorResponse(500, log[r][i].info.text)

\* C6 (amended): a failed build answers 500 with the error text of the
\* failed invocation ("exit status N"); what docker build printed went to
\* the server's own standard streams and is not in the response.
C6_BuildFailureBody ==
    \A r \in Reqs :
      \A i \in DOMAIN log[r] :
        (log[r][i].op = "buildExit" /\ ~log[r][i].ok) =>
           /\ resp[r] = ErrorResponse(500, <<"exit status 1">>)
           /\ resp[r][1].body # log[r][i].info.text
           /\ \E k \in DOMAIN stdStreams : stdStreams[k] = log[r][i].info.text

\* C6 witness: a request whose build exited non-zero has answered.
C6_Witness ==
    \E r \in Reqs : Failed(r, "buildExit") /\ pc[r] = "done" /\ Len(resp[r]) = 1

\* C7: a request whose docker-compose up exited non-zero answers 500 with
\* exactly the output captured from its own up invocation; the output is
\* captured whatever the exit status.
C7_UpFailureBody ==
    \A r \in Reqs :
      \A i \in DOMAIN log[r] :
        log[r][i].op = "upExit" =>
           /\ output[r] = log[r][i].info.text
           /\ ~log[r][i].ok => resp[r] = ErrorResponse(500, log[r][i].info.text)

\* C7 witness: a request's up exited non-zero and it has answered, while the
\* up of another request captured a different text.
C7_Witness ==
    \E r, o \in Reqs :
      /\ r # o /\ Failed(r, "upExit") /\ pc[r] = "done"
      /\ Has(o, "upExit") /\ output[o] # output[r]

\* C8: if any of the three metrics queries fails the request answers 500
\* and never evaluates admission, writes an artifact or launches a process;
\* admission is evaluated only after all three queries of the same request
\* succeeded.
C8_SnapshotAllOrNothing ==
    \A r \in Reqs :
      /\ (\E m \in MetricOps : Failed(r, m)) =>
            /\ resp[r] = ErrorResponse(500, MetricsErr)
            /\ ~Has(r, "admit")
            /\ \A op \in ProvisionOps : ~Has(r, op)
      /\ Has(r, "admit") => \A m \in MetricOps : Passed(r, m)

\* C8 witness: the memory query of a request failed after its CPU query
\* succeeded, and another request evaluated admission.
C8_Witness ==
    \E r, o \in Reqs :
      r # o /\ Passed(r, "cpu") /\ Failed(r, "mem") /\ pc[r] = "done" /\ Has(o, "admit")

SuccessResponse(r) == Len(resp[r]) >= 1 /\ resp[r][1].status = 200

\* C9: within one request each external call is attempted at most once, and
\* exactly once (successfully) in a request that answers success; after an
\* external call failed the request makes no further external call.
C9_NoRetry ==
    \A r \in Reqs :
      /\ \A op \in StepOps : Count(r, op) <= 1
      /\ SuccessResponse(r) =>
            \A op \in StepOps :
               Count(r, op) = 1 /\ Passed(r, op)
      /\ \A i \in DOMAIN log[r] :
            (log[r][i].op \in StepOps /\ ~log[r][i].ok) =>
               \A j \in DOMAIN log[r] : j > i => log[r][j].op \notin CallOps

\* C9 witness: one request answered success and another stopped at a failed
\* external call.
C9_Witness ==
    \E r, o \in Reqs :
      /\ r # o /\ SuccessResponse(r)
      /\ \E op \in StepOps : Failed(o, op)

\* C10: a request writes at most one response, has written exactly one when
\* its handler returned, and after a response it takes no further step.
C10_FailureIsTerminal ==
    /\ [](\A r \in Reqs :
            /\ Len(resp[r]) <= 1
            /\ pc[r] = "done" <=> Len(resp[r]) = 1)
    /\ [][\A r \in Reqs :
            resp[r] # <<>> =>
               /\ resp'[r] = resp[r] /\ log'[r] = log[r] /\ pc'[r] = pc[r]
               /\ output'[r] = output[r]]_vars

\* C10 witness: a request has sent an error response while the other is
\* still in its pipeline.
C10_Witness ==
    \E r, o \in Reqs :
      /\ r # o /\ Len(resp[r]) = 1 /\ resp[r][1].status # 200
      /\ pc[o] \notin {"idle", "done"}

\* The text a request's own createDockerComposeFile renders.
OwnCompose(r) == composeTemplate(TemplateData(req[r]))

\* What the request's docker-compose up found in docker-compose.yml.
UpInput(r) ==
    LET i == CHOOSE i \in DOMAIN log[r] : log[r][i].op = "up" /\ log[r][i].ok
    IN  log[r][i].info

\* C11: nothing in the handler keeps a request B from rewriting
\* docker-compose.yml while a request A stands between its own write and its
\* docker-compose up: whenever A is there and B has reached its compose
\* step, B's open (and then its write) is enabled; and a success response
\* carries the request's own port whatever compose text its up ran against.
C11_ComposeRaceNotExcluded ==
    \A a, b \in Reqs :
      /\ (a # b /\ pc[a] = "up" /\ pc[b] = "compose") =>
            ENABLED createDockerComposeFileOpen(b)
      /\ (a # b /\ pc[a] = "up" /\ pc[b] = "composeWrite") =>
            ENABLED createDockerComposeFileWrite(b)
      /\ SuccessResponse(a) =>
            resp[a][1].body.ssh_url = <<"ssh root@localhost -p ">> \o req[a].Port

\* C11 witness: A's up ran against the compose text rendered from B's
\* different request, written after A's own write, and A answered success
\* with its own port.
C11_Witness ==
    \E a, b \in Reqs :
      /\ a # b
      /\ req[a].CPUs # req[b].CPUs /\ req[a].Memory # req[b].Memory
      /\ req[a].Storage # req[b].Storage /\ req[a].Port # req[b].Port
      /\ Passed(a, "writeCompose") /\ Passed(a, "up")
      /\ UpInput(a) = OwnCompose(b) /\ UpInput(a) # OwnCompose(a)
      /\ SuccessResponse(a)
      /\ resp[a][1].body.ssh_url = <<"ssh root@localhost -p ">> \o req[a].Port

\* C12: admission keeps no ledger: the decision of a request is the test of
\* its own amounts against its own snapshot, whatever other requests were
\* admitted, and an admitted request's next step never waits for another.
C12_NoLedger ==
    \A r \in Reqs :
      /\ Has(r, "admit") => (Passed(r, "admit") <=> ~Rejects(r))
      /\ pc[r] = "dockerfile" => ENABLED createDockerfileOpen(r)

\* C12 witness: two requests passed admission, each within the snapshot it
\* was tested against, their CPU counts together exceed either snapshot's,
\* and both went on to build and up.
C12_Witness ==
    \E a, b \in Reqs :
      /\ a # b
      /\ Passed(a, "admit") /\ Passed(b, "admit")
      /\ ~Rejects(a) /\ ~Rejects(b)
      /\ ~IsNeg(requiredCPUs[a]) /\ ~IsNeg(requiredCPUs[b])
      /\ SGt(AddWord(requiredCPUs[a], requiredCPUs[b]), cpuCount[a])
      /\ SGt(AddWord(requiredCPUs[a], requiredCPUs[b]), cpuCount[b])
      /\ Has(a, "buildExit") /\ Has(b, "buildExit")
      /\ Has(a, "upExit") /\ Has(b, "upExit")

\* text holds part as a contiguous run.
Contains(text, part) ==
    \E k \in 1..(Len(text) - Len(part) + 1) :
       SubSeq(text, k, k + Len(part) - 1) = part

\* The text a completed createDockerComposeFile of r handed to WriteFile.
Written(r) ==
    LET i == CHOOSE i \in DOMAIN log[r] : log[r][i].op = "writeCompose" /\ log[r][i].ok
    IN  log[r][i].info

\* C13: the text createDockerComposeFile writes is a function of the
\* request alone: two requests with the same cpus, memory, storage and port
\* write the same text whatever the file held before, and the text holds
\* cpus: "<cpus>", memory: "<memory>M", size: "<storage>M" and "<port>:22"
\* with the request's strings verbatim.
C13_ComposeTextIsPure ==
    \A r \in Reqs :
      Passed(r, "writeCompose") =>
        /\ Contains(Written(r), <<"cpus: \"">> \o req[r].CPUs \o <<"\"">>)
        /\ Contains(Written(r), <<" memory: \"">> \o req[r].Memory \o <<"M\"">>)
        /\ Contains(Written(r), <<" storage_opt: size: \"">> \o req[r].Storage \o <<"M\"">>)
        /\ Contains(Written(r), <<" ports: - \"">> \o req[r].Port \o <<":22\"">>)
        /\ \A o \in Reqs :
             (Passed(o, "writeCompose") /\ req[o] = req[r]) => Written(o) = Written(r)

\* C13 witness: two requests with identical fields both completed their
\* compose write, the second onto the text the first had left.
C13_Witness ==
    \E r, o \in Reqs :
      /\ r # o /\ req[r] = req[o] /\ req[r].CPUs # <<>>
      /\ Passed(r, "writeCompose") /\ Passed(o, "writeCompose")
      /\ composeFile = Written(r)

\* The exit of the request's own docker-compose up, as recorded.
UpExit(r) ==
    LET i == CHOOSE i \in DOMAIN log[r] : log[r][i].op = "upExit"
    IN  log[r][i]

\* C14: a request answers the success envelope only if its own
\* docker-compose up exited zero; the envelope holds that invocation's
\* output, "ssh root@localhost -p " followed by the request's own port, and
\* the fixed password; the handler has returned.
C14_SuccessEnvelope ==
    \A r \in Reqs :
      (\E i \in DOMAIN resp[r] : resp[r][i].status = 200) =>
        /\ Has(r, "upExit") /\ UpExit(r).ok /\ UpExit(r).info.code = 0
        /\ resp[r] = <<[status |-> 200,
                        body |-> [docker_compose_output |-> UpExit(r).info.text,
                                  ssh_url |-> <<"ssh root@localhost -p ">> \o req[r].Port,
                                  password |-> <<"password">>]]>>
        /\ pc[r] = "done"

\* C14 witness: two requests with different ports and different up outputs
\* both answered success.
C14_Witness ==
    \E r, o \in Reqs :
      /\ r # o /\ SuccessResponse(r) /\ SuccessResponse(o)
      /\ req[r].Port # req[o].Port
      /\ output[r] # output[o]

\* A handler step that can be taken is eventually taken: the scheduler runs
\* the goroutines and every external call returns.  No handler has a loop,
\* so this carries every request to the end of its handler.
FairSpec == Spec /\ WF_vars(Next)

LastOp(l) == IF l = <<>> THEN "" ELSE l[Len(l)].op

\* C15: when every external call returns, every request eventually sends
\* its response; while its build or up subprocess has not
\* exited it has sent none, and it leaves that wait only by the subprocess
\* exiting (no timeout, no cancellation).
C15_Termination ==
    /\ <>(\A r \in Reqs : pc[r] = "done" /\ Len(resp[r]) = 1)
    /\ [](\A r \in Reqs : pc[r] \in {"building", "running"} => resp[r] = <<>>)
    /\ [][\A r \in Reqs :
            /\ (pc[r] = "building" /\ pc'[r] # "building") => LastOp(log'[r]) = "buildExit"
            /\ (pc[r] = "running" /\ pc'[r] # "running") => LastOp(log'[r]) = "upExit"]_vars

\* C15 witness: one request has answered after its build and up exited,
\* while another is waiting for its up and has answered nothing.
C15_Witness ==
    \E r, o \in Reqs :
      /\ r # o /\ pc[r] = "running" /\ resp[r] = <<>>
      /\ Has(o, "buildExit") /\ Has(o, "upExit") /\ Len(resp[o]) = 1

\* The provisioner steps in the order of the handler.
ProvisionOrder ==
    <<"openDockerfile", "writeDockerfile", "build", "buildExit",
      "openCompose", "writeCompose", "up", "upExit">>

\* The provisioner entries of a request's history, in order.
RECURSIVE Provisioned(_)
Provisioned(l) ==
    IF l = <<>> THEN <<>>
    ELSE IF Head(l).op \in ProvisionOps THEN <<Head(l)>> \o Provisioned(Tail(l))
    ELSE Provisioned(Tail(l))

\* C16: the provisioner steps of a request run in the order write image
\* definition, build, write compose definition, up, each only after the one
\* before succeeded; so a request whose Dockerfile write or build failed
\* never touched docker-compose.yml, and one whose compose write failed
\* never launched up.
C16_ProvisionerOrder ==
    \A r \in Reqs :
      LET p == Provisioned(log[r])
      IN  /\ Len(p) <= Len(ProvisionOrder)
          /\ \A i \in DOMAIN p :
                /\ p[i].op = ProvisionOrder[i]
                /\ i < Len(p) => p[i].ok
          /\ (\E op \in {"openDockerfile", "writeDockerfile", "build", "buildExit"} :
                Failed(r, op)) => ~Has(r, "openCompose") /\ ~Has(r, "writeCompose")
          /\ (Failed(r, "openCompose") \/ Failed(r, "writeCompose")) =>
                ~Has(r, "up") /\ ~Has(r, "upExit")

\* C16 witness: one request went through all the steps and its compose text
\* stands in the file; another stopped at a failed Dockerfile write.
C16_Witness ==
    \E r, o \in Reqs :
      /\ r # o /\ Has(r, "upExit")
      /\ Failed(o, "writeDockerfile") /\ pc[o] = "done"
      /\ composeFile = OwnCompose(r)

\* C17 (as claimed): for every memory or storage value Atoi accepts, the
\* admission test rejects whenever the mathematical product
\* value * 1024 * 1024 exceeds the available bytes.
C17_Claim ==
    \A r \in Reqs :
      ( /\ Has(r, "admit")
        /\ \/ ~IsNeg(requiredMemory[r]) /\ ExceedsBytes(requiredMemory[r], virtMem[r])
           \/ ~IsNeg(requiredStorage[r]) /\ ExceedsBytes(requiredStorage[r], diskUsage[r]) )
      => Failed(r, "admit")

\* C18 (as claimed): once docker-compose.yml has been written, its content
\* is in every state the rendering of one request that passed admission and
\* whose build succeeded; a request answered 400 or 403, or whose metrics
\* query, Dockerfile write or build failed, never touches the file.
C18_Claim ==
    /\ (\E r \in Reqs : Passed(r, "writeCompose")) =>
          \E r \in Reqs :
             /\ Passed(r, "admit") /\ Passed(r, "buildExit")
             /\ composeFile = OwnCompose(r)
    /\ \A r \in Reqs :
          ( \/ \E i \in DOMAIN resp[r] : resp[r][i].status \in {400, 403}
            \/ \E op \in MetricOps \cup {"openDockerfile", "writeDockerfile",
                                         "build", "buildExit"} : Failed(r, op) )
          => ~Has(r, "openCompose") /\ ~Has(r, "writeCompose")

\* C19 (as claimed): once a createDockerfile call has completed, Dockerfile
\* holds the fixed text in every state, and every docker build reads that
\* text.
C19_Claim ==
    /\ (\E r \in Reqs : Passed(r, "writeDockerfile")) => Dockerfile = dockerfileContent
    /\ \A r \in Reqs :
          \A i \in DOMAIN log[r] :
             (log[r][i].op = "build" /\ log[r][i].ok) => log[r][i].info = dockerfileContent
====
